---- MODULE Spec2Model ----
(***************************************************************************)
(* Directory statistics engine of the list-dir command: the statistics     *)
(* collector (statistics.ts), the line counter (lineCounter.ts) and the    *)
(* directory walker (listDir.ts).                                          *)
(*                                                                         *)
(* A JavaScript string is a sequence of one-character strings, so that     *)
(* split, trim, extname and the regular expressions are computed on the    *)
(* characters.                                                             *)
(***************************************************************************)
EXTENDS Integers, Sequences, FiniteSets, TLC

VARIABLES
  stats,        \* StatisticsCollector.stats (FileStats)
  countLines,   \* StatisticsCollector.countLines
  calls,        \* history: the addFile / addDirectory calls made so far
  threw,        \* history: an exception escaped from addFile
  lastOp,       \* history: the last collector method that ran
  lc,           \* LineCounter.countLinesInFile: its locals and position
  pc,           \* executeListDir: its position
  config,       \* options.config
  fsys,         \* the file system: the tree scanned and the calls that fail
  stack,        \* the active calls of listDirRecursive, outermost first
  progressTracker, \* { current, total }
  outputs,      \* OutputManager.outputs
  logged,       \* history: the outputManager.log calls of the walk
  console,      \* what console.log has printed
  bar           \* ProgressManager.progressBar of the output manager

collectorVars == <<stats, countLines, calls, threw, lastOp>>
walkVars == <<pc, config, fsys, stack, progressTracker, outputs, logged, console, bar>>
vars == <<stats, countLines, calls, threw, lastOp, lc,
          pc, config, fsys, stack, progressTracker, outputs, logged, console, bar>>

----------------------------------------------------------------------------
(* Strings *)

SEP == "/"
NL == "\n"

NoExtension == <<"(", "n", "o", " ", "e", "x", "t", "e", "n", "s", "i", "o", "n", ")">>

UpperCase == <<"A","B","C","D","E","F","G","H","I","J","K","L","M",
               "N","O","P","Q","R","S","T","U","V","W","X","Y","Z">>
LowerCase == <<"a","b","c","d","e","f","g","h","i","j","k","l","m",
               "n","o","p","q","r","s","t","u","v","w","x","y","z">>

\* the lower-case form of one character
lowerChar(c) ==
  IF \E k \in 1..26 : UpperCase[k] = c
  THEN LowerCase[CHOOSE k \in 1..26 : UpperCase[k] = c]
  ELSE c

\* String.prototype.toLowerCase
RECURSIVE toLowerCase(_)
toLowerCase(s) ==
  IF s = <<>> THEN <<>>
  ELSE <<lowerChar(Head(s))>> \o toLowerCase(Tail(s))

\* what \s matches and what trim() removes
WhiteSpace == {" ", "\t", "\r", "\f", "\n"}

\* what . does not match
LineTerminator == {"\n", "\r"}

\* String.prototype.trim
trim(s) ==
  LET keep == {i \in 1..Len(s) : s[i] \notin WhiteSpace}
  IN IF keep = {} THEN <<>>
     ELSE LET lo == CHOOSE i \in keep : \A j \in keep : i <= j
              hi == CHOOSE i \in keep : \A j \in keep : j <= i
          IN SubSeq(s, lo, hi)

\* String.prototype.split(sep) for a one-character separator
RECURSIVE split(_, _)
split(s, sep) ==
  LET at == {i \in 1..Len(s) : s[i] = sep}
  IN IF at = {} THEN <<s>>
     ELSE LET i == CHOOSE k \in at : \A j \in at : k <= j
          IN <<SubSeq(s, 1, i - 1)>> \o split(SubSeq(s, i + 1, Len(s)), sep)

\* s occurs in t at position i
OccursAt(s, t, i) ==
  /\ i >= 1
  /\ i + Len(s) - 1 <= Len(t)
  /\ SubSeq(t, i, i + Len(s) - 1) = s

----------------------------------------------------------------------------
(* path *)

\* path.basename
basename(p) ==
  LET at == {i \in 1..Len(p) : p[i] = SEP}
  IN IF at = {} THEN p
     ELSE SubSeq(p, (CHOOSE i \in at : \A j \in at : j <= i) + 1, Len(p))

\* path.extname: from the last dot of the base name, empty when there is no
\* dot, when the only dot starts the name, and for ".."
extname(p) ==
  LET b == basename(p)
      dots == {i \in 1..Len(b) : b[i] = "."}
  IN IF dots = {} THEN <<>>
     ELSE LET d == CHOOSE i \in dots : \A j \in dots : j <= i
          IN IF d = 1 \/ b = <<".", ".">> THEN <<>>
             ELSE SubSeq(b, d, Len(b))

\* path.join(dir, item) for a normalised dir and a plain entry name
join(dir, item) == dir \o <<SEP>> \o item

\* path.relative(from, to) for a path to below from
relative(from, to) ==
  IF to = from THEN <<>>
  ELSE SubSeq(to, Len(from) + 2, Len(to))

\* filePath.split(path.sep).length
pathDepth(filePath) == Len(split(filePath, SEP))

\* as extKey, without toLowerCase
extKey_caseKept(filePath) ==
  LET e == extname(filePath)
  IN IF e = <<>> THEN NoExtension ELSE e

\* path.extname(filePath).toLowerCase() || '(no extension)'
extKey(filePath) ==
  LET e == toLowerCase(extname(filePath))
  IN IF e = <<>> THEN NoExtension ELSE e

----------------------------------------------------------------------------
(* LineCounter *)

CODE_EXTENSIONS ==
  {<<".", "j", "s">>,
   <<".", "j", "s", "x">>,
   <<".", "t", "s">>,
   <<".", "t", "s", "x">>,
   <<".", "j", "a", "v", "a">>,
   <<".", "p", "y">>,
   <<".", "c">>,
   <<".", "c", "p", "p">>,
   <<".", "h">>,
   <<".", "h", "p", "p">>,
   <<".", "c", "s">>,
   <<".", "p", "h", "p">>,
   <<".", "r", "b">>,
   <<".", "g", "o">>,
   <<".", "r", "s">>,
   <<".", "s", "w", "i", "f", "t">>,
   <<".", "k", "t">>,
   <<".", "s", "c", "a", "l", "a">>,
   <<".", "d", "a", "r", "t">>,
   <<".", "v", "u", "e">>,
   <<".", "s", "v", "e", "l", "t", "e">>,
   <<".", "h", "t", "m", "l">>,
   <<".", "c", "s", "s">>,
   <<".", "s", "c", "s", "s">>,
   <<".", "s", "a", "s", "s">>,
   <<".", "l", "e", "s", "s">>,
   <<".", "s", "q", "l">>,
   <<".", "x", "m", "l">>,
   <<".", "j", "s", "o", "n">>,
   <<".", "y", "a", "m", "l">>,
   <<".", "y", "m", "l">>,
   <<".", "t", "o", "m", "l">>,
   <<".", "i", "n", "i">>,
   <<".", "c", "o", "n", "f">>,
   <<".", "s", "h">>,
   <<".", "b", "a", "t">>,
   <<".", "p", "s", "1">>,
   <<".", "r">>,
   <<".", "m">>,
   <<".", "p", "l">>,
   <<".", "l", "u", "a">>,
   <<".", "v", "i", "m">>,
   <<".", "d", "o", "c", "k", "e", "r", "f", "i", "l", "e">>,
   <<".", "m", "a", "k", "e", "f", "i", "l", "e">>}

\* COMMENT_PATTERNS.singleLine: /^\s*M.*$/ for each marker M
singleLine ==
  <<<<"/", "/">>, <<"#">>, <<"-", "-">>, <<";">>, <<"'">>, <<"*">>>>

\* COMMENT_PATTERNS.multiLineStart: /^\s*M.*$/ for each marker M
multiLineStart ==
  <<<<"/", "*">>, <<"<", "!", "-", "-">>, <<"\"", "\"", "\"">>, <<"'", "'", "'">>>>

\* COMMENT_PATTERNS.multiLineEnd: /.*M\s*$/ for each marker M
multiLineEnd ==
  <<<<"*", "/">>, <<"-", "-", ">">>, <<"\"", "\"", "\"">>, <<"'", "'", "'">>>>

\* as testPrefix, for the pattern without the ^\s* : the marker anywhere
testPrefix_unanchored(marker, line) ==
  \E i \in 1..Len(line) :
    /\ OccursAt(marker, line, i)
    /\ \A j \in (i + Len(marker))..Len(line) : line[j] \notin LineTerminator

\* /^\s*M.*$/.test(line): white space, the marker, then the rest of the
\* input without a line terminator
testPrefix(marker, line) ==
  \E i \in 1..Len(line) :
    /\ \A j \in 1..(i - 1) : line[j] \in WhiteSpace
    /\ OccursAt(marker, line, i)
    /\ \A j \in (i + Len(marker))..Len(line) : line[j] \notin LineTerminator

\* /.*M\s*$/.test(line): the marker preceded, back to some position, by
\* characters other than line terminators and followed by white space only
testSuffix(marker, line) ==
  \E i \in 1..Len(line) :
    /\ OccursAt(marker, line, i)
    /\ \A j \in (i + Len(marker))..Len(line) : line[j] \in WhiteSpace

\* patterns.some((pattern) => pattern.test(line))
somePrefix(patterns, line) ==
  \E k \in 1..Len(patterns) : testPrefix(patterns[k], line)

\* as someSuffix, testing the first pattern only
someSuffix_firstOnly(patterns, line) == testSuffix(patterns[1], line)

someSuffix(patterns, line) ==
  \E k \in 1..Len(patterns) : testSuffix(patterns[k], line)

\* as classifyLine, with the test of inMultiLineComment before the test
\* for a blank line
classifyLine_commentFirst(line, inMultiLineComment) ==
  IF inMultiLineComment
    THEN [kind |-> "comments",
          inMultiLineComment |-> ~someSuffix(multiLineEnd, line)]
  ELSE IF trim(line) = <<>>
    THEN [kind |-> "blank", inMultiLineComment |-> inMultiLineComment]
  ELSE IF somePrefix(multiLineStart, line)
    THEN [kind |-> "comments",
          inMultiLineComment |-> ~someSuffix(multiLineEnd, line)]
  ELSE IF somePrefix(singleLine, line)
    THEN [kind |-> "comments", inMultiLineComment |-> FALSE]
  ELSE [kind |-> "code", inMultiLineComment |-> FALSE]

\* one iteration of the loop over the lines: the counter the line
\* increments and the value of inMultiLineComment after it
classifyLine(line, inMultiLineComment) ==
  IF trim(line) = <<>>
    THEN [kind |-> "blank", inMultiLineComment |-> inMultiLineComment]
  ELSE IF inMultiLineComment
    THEN [kind |-> "comments",
          inMultiLineComment |-> ~someSuffix(multiLineEnd, line)]
  ELSE IF somePrefix(multiLineStart, line)
    THEN [kind |-> "comments",
          inMultiLineComment |-> ~someSuffix(multiLineEnd, line)]
  ELSE IF somePrefix(singleLine, line)
    THEN [kind |-> "comments", inMultiLineComment |-> FALSE]
  ELSE [kind |-> "code", inMultiLineComment |-> FALSE]


\* fs.readFileSync(filePath, 'utf8'): the content, or an exception
ReadOk(content) == [ok |-> TRUE, content |-> content]
ReadError == [ok |-> FALSE, content |-> <<>>]

\* the outcomes of countLinesInFile as the caller sees them
NullInfo == [tag |-> "null"]
ThrownInfo == [tag |-> "throw"]

ZeroLineCount == [total |-> 0, code |-> 0, comments |-> 0, blank |-> 0]

\* the loop body: the counters and the flag after one more line
countLine(acc, line) ==
  LET c == classifyLine(line, acc.inMultiLineComment)
  IN [codeLines |-> acc.codeLines + (IF c.kind = "code" THEN 1 ELSE 0),
      commentLines |-> acc.commentLines + (IF c.kind = "comments" THEN 1 ELSE 0),
      blankLines |-> acc.blankLines + (IF c.kind = "blank" THEN 1 ELSE 0),
      inMultiLineComment |-> c.inMultiLineComment]

ZeroCounters ==
  [codeLines |-> 0, commentLines |-> 0, blankLines |-> 0,
   inMultiLineComment |-> FALSE]

\* for (const line of lines) { ... }
RECURSIVE countLoop(_, _, _)
countLoop(lines, i, acc) ==
  IF i > Len(lines) THEN acc
  ELSE countLoop(lines, i + 1, countLine(acc, lines[i]))

\* the FileLineInfo returned for a non-code file
nonCodeResult(ext, lines) ==
  [tag |-> "info",
   extension |-> IF ext = <<>> THEN NoExtension ELSE ext,
   lineCount |-> [total |-> Len(lines), code |-> 0, comments |-> 0, blank |-> 0],
   isCodeFile |-> FALSE]

\* the FileLineInfo returned for a code file
codeResult(ext, lines, acc) ==
  [tag |-> "info",
   extension |-> IF ext = <<>> THEN NoExtension ELSE ext,
   lineCount |-> [total |-> Len(lines), code |-> acc.codeLines,
                  comments |-> acc.commentLines, blank |-> acc.blankLines],
   isCodeFile |-> TRUE]

\* the body of the try block, for a file that can be read
countLinesTry(filePath, content) ==
  LET ext == toLowerCase(extname(filePath))
      lines == split(content, NL)
  IN IF ext \notin CODE_EXTENSIONS
     THEN nonCodeResult(ext, lines)
     ELSE codeResult(ext, lines, countLoop(lines, 1, ZeroCounters))

\* as countLinesInFile, without the catch: the read error leaves the call
countLinesInFile_noCatch(filePath, rd) ==
  IF rd.ok THEN countLinesTry(filePath, rd.content) ELSE ThrownInfo

\* LineCounter.countLinesInFile: a read error is caught and gives null
countLinesInFile(filePath, rd) ==
  IF rd.ok THEN countLinesTry(filePath, rd.content) ELSE NullInfo

LineCounterIdle ==
  [pc |-> "idle", filePath |-> <<>>, rd |-> ReadError, lines |-> <<>>, idx |-> 0,
   codeLines |-> 0, commentLines |-> 0, blankLines |-> 0,
   inMultiLineComment |-> FALSE, kinds |-> <<>>, flags |-> <<>>,
   result |-> NullInfo]

\* countLinesInFile is entered: extension, read, split
CountBegin ==
  /\ lc.pc = "call"
  /\ LET ext == toLowerCase(extname(lc.filePath))
     IN IF ~lc.rd.ok
        THEN lc' = [lc EXCEPT !.pc = "done", !.result = NullInfo]
        ELSE LET lines == split(lc.rd.content, NL)
             IN IF ext \notin CODE_EXTENSIONS
                THEN lc' = [lc EXCEPT !.pc = "done", !.lines = lines,
                                      !.result = nonCodeResult(ext, lines)]
                ELSE lc' = [lc EXCEPT !.pc = "loop", !.lines = lines, !.idx = 1]
  /\ UNCHANGED <<collectorVars, walkVars>>

\* one iteration of the loop over the lines
CountLine ==
  /\ lc.pc = "loop"
  /\ lc.idx <= Len(lc.lines)
  /\ LET line == lc.lines[lc.idx]
         acc == countLine([codeLines |-> lc.codeLines,
                           commentLines |-> lc.commentLines,
                           blankLines |-> lc.blankLines,
                           inMultiLineComment |-> lc.inMultiLineComment], line)
     IN lc' = [lc EXCEPT !.idx = lc.idx + 1,
                         !.codeLines = acc.codeLines,
                         !.commentLines = acc.commentLines,
                         !.blankLines = acc.blankLines,
                         !.inMultiLineComment = acc.inMultiLineComment,
                         !.kinds = Append(lc.kinds,
                                     classifyLine(line, lc.inMultiLineComment).kind),
                         !.flags = Append(lc.flags, acc.inMultiLineComment)]
  /\ UNCHANGED <<collectorVars, walkVars>>

\* the loop is over: the result is built and returned
CountReturn ==
  /\ lc.pc = "loop"
  /\ lc.idx > Len(lc.lines)
  /\ lc' = [lc EXCEPT !.pc = "done",
                      !.result = codeResult(toLowerCase(extname(lc.filePath)), lc.lines,
                                   [codeLines |-> lc.codeLines,
                                    commentLines |-> lc.commentLines,
                                    blankLines |-> lc.blankLines,
                                    inMultiLineComment |-> lc.inMultiLineComment])]
  /\ UNCHANGED <<collectorVars, walkVars>>


----------------------------------------------------------------------------
(* StatisticsCollector *)

\* a / b as an exact fraction in lowest terms
RECURSIVE gcd(_, _)
gcd(a, b) == IF b = 0 THEN a ELSE gcd(b, a % b)

Quotient(a, b) ==
  LET g == gcd(a, b) IN [num |-> a \div g, den |-> b \div g]

Zero == [num |-> 0, den |-> 1]

\* the stats field initialiser
InitialStats ==
  [totalFiles |-> 0,
   totalDirectories |-> 0,
   totalSize |-> 0,
   filesByExtension |-> <<>>,
   sizeByExtension |-> <<>>,
   largestFiles |-> <<>>,
   deepestPath |-> [path |-> <<>>, depth |-> 0],
   avgFileSize |-> Zero,
   totalLines |-> ZeroLineCount,
   linesByExtension |-> <<>>,
   codeFileCount |-> 0,
   nonCodeFileCount |-> 0]

\* map.get(key) || dflt
getOr(map, key, dflt) == IF key \in DOMAIN map THEN map[key] ELSE dflt

\* map.set(key, value)
set(map, key, value) ==
  [k \in (DOMAIN map) \cup {key} |-> IF k = key THEN value ELSE map[k]]

\* as addFileCounts, with totalSize assigned instead of added to
addFileCounts_assign(st, filePath, size) ==
  LET ext == extKey(filePath)
  IN [st EXCEPT
        !.totalFiles = st.totalFiles + 1,
        !.totalSize = size,
        !.filesByExtension =
           set(st.filesByExtension, ext, getOr(st.filesByExtension, ext, 0) + 1),
        !.sizeByExtension =
           set(st.sizeByExtension, ext, getOr(st.sizeByExtension, ext, 0) + size)]

\* addFile: the counters and the extension maps
addFileCounts(st, filePath, size) ==
  LET ext == extKey(filePath)
  IN [st EXCEPT
        !.totalFiles = st.totalFiles + 1,
        !.totalSize = st.totalSize + size,
        !.filesByExtension =
           set(st.filesByExtension, ext, getOr(st.filesByExtension, ext, 0) + 1),
        !.sizeByExtension =
           set(st.sizeByExtension, ext, getOr(st.sizeByExtension, ext, 0) + size)]

\* the sum of two LineCounts, field by field
addLineCount(a, b) ==
  [total |-> a.total + b.total,
   code |-> a.code + b.code,
   comments |-> a.comments + b.comments,
   blank |-> a.blank + b.blank]

\* as addFileLines, with a file without line info counted as a non-code
\* file
addFileLines_countNull(st, filePath, lineInfo) ==
  LET ext == extKey(filePath)
  IN IF lineInfo.tag = "info"
     THEN [st EXCEPT
             !.codeFileCount = IF lineInfo.isCodeFile THEN @ + 1 ELSE @,
             !.nonCodeFileCount = IF lineInfo.isCodeFile THEN @ ELSE @ + 1,
             !.totalLines = addLineCount(@, lineInfo.lineCount),
             !.linesByExtension =
                set(@, ext, addLineCount(getOr(@, ext, ZeroLineCount),
                                         lineInfo.lineCount))]
     ELSE [st EXCEPT !.nonCodeFileCount = @ + 1]

\* addFile: if (lineInfo) { ... } else { logDebug }
addFileLines(st, filePath, lineInfo) ==
  LET ext == extKey(filePath)
  IN IF lineInfo.tag = "info"
     THEN [st EXCEPT
             !.codeFileCount = IF lineInfo.isCodeFile THEN @ + 1 ELSE @,
             !.nonCodeFileCount = IF lineInfo.isCodeFile THEN @ ELSE @ + 1,
             !.totalLines = addLineCount(@, lineInfo.lineCount),
             !.linesByExtension =
                set(@, ext, addLineCount(getOr(@, ext, ZeroLineCount),
                                         lineInfo.lineCount))]
     ELSE st

\* as insertSorted, with x placed before the elements of its own size
RECURSIVE insertSorted_beforeEqual(_, _)
insertSorted_beforeEqual(sorted, x) ==
  IF sorted = <<>> THEN <<x>>
  ELSE IF Head(sorted).size > x.size
       THEN <<Head(sorted)>> \o insertSorted_beforeEqual(Tail(sorted), x)
       ELSE <<x>> \o sorted

\* the position of x in the list sorted so far: after every element whose
\* size is at least x.size (the comparator b.size - a.size, stable)
RECURSIVE insertSorted(_, _)
insertSorted(sorted, x) ==
  IF sorted = <<>> THEN <<x>>
  ELSE IF Head(sorted).size >= x.size
       THEN <<Head(sorted)>> \o insertSorted(Tail(sorted), x)
       ELSE <<x>> \o sorted

\* largestFiles.sort((a, b) => b.size - a.size)
RECURSIVE sortBySizeDesc(_)
sortBySizeDesc(arr) ==
  IF arr = <<>> THEN <<>>
  ELSE insertSorted(sortBySizeDesc(SubSeq(arr, 1, Len(arr) - 1)), arr[Len(arr)])

\* the number of largest files kept
TopN == 5

\* addFile: push, sort, slice(0, 5)
addFileLargest(st, filePath, size) ==
  LET pushed == Append(st.largestFiles,
                       [name |-> basename(filePath), size |-> size, path |-> filePath])
      sorted == sortBySizeDesc(pushed)
  IN [st EXCEPT !.largestFiles =
        IF Len(sorted) > TopN THEN SubSeq(sorted, 1, TopN) ELSE sorted]

\* as addFileDeepest, replacing the stored path at an equal depth too
addFileDeepest_orEqual(st, filePath) ==
  LET depth == pathDepth(filePath)
  IN IF depth >= st.deepestPath.depth
     THEN [st EXCEPT !.deepestPath = [path |-> filePath, depth |-> depth]]
     ELSE st

\* addFile: the deepest path
addFileDeepest(st, filePath) ==
  LET depth == pathDepth(filePath)
  IN IF depth > st.deepestPath.depth
     THEN [st EXCEPT !.deepestPath = [path |-> filePath, depth |-> depth]]
     ELSE st

\* StatisticsCollector.addFile: the stats after the call, and whether an
\* exception left it (the statements after the throwing one do not run)
addFile(st, cl, filePath, size, rd) ==
  LET counted == addFileCounts(st, filePath, size)
      lineInfo == IF cl THEN countLinesInFile(filePath, rd) ELSE NullInfo
  IN IF lineInfo.tag = "throw"
     THEN [stats |-> counted, threw |-> TRUE, lineInfo |-> lineInfo]
     ELSE [stats |-> addFileDeepest(
                       addFileLargest(
                         addFileLines(counted, filePath, lineInfo),
                         filePath, size),
                       filePath),
           threw |-> FALSE,
           lineInfo |-> lineInfo]

\* StatisticsCollector.addDirectory
addDirectory(st) == [st EXCEPT !.totalDirectories = st.totalDirectories + 1]

\* as finalize, with the average rounded down to an integer
finalize_floor(st) ==
  [st EXCEPT !.avgFileSize =
     IF st.totalFiles > 0
     THEN [num |-> st.totalSize \div st.totalFiles, den |-> 1] ELSE Zero]

\* StatisticsCollector.finalize
finalize(st) ==
  [st EXCEPT !.avgFileSize =
     IF st.totalFiles > 0 THEN Quotient(st.totalSize, st.totalFiles) ELSE Zero]



----------------------------------------------------------------------------
(* The file system and the configuration *)

\* a tree: readdirSync of each directory, in its order, and the size of
\* each file
NoFaults == [readdir |-> {}, stat |-> {}, read |-> {}]

\* new RegExp(p) for a pattern p that is a literal with optional ^ and $
RegExp(anchorStart, literal, anchorEnd) ==
  [anchorStart |-> anchorStart, literal |-> literal, anchorEnd |-> anchorEnd]

\* pattern.test(str)
test(pattern, str) ==
  \E i \in 1..(Len(str) + 1) :
    /\ OccursAt(pattern.literal, str, i)
    /\ pattern.anchorStart => i = 1
    /\ pattern.anchorEnd => i + Len(pattern.literal) - 1 = Len(str)

\* (config['exclude-patterns'] || []).map((p) => new RegExp(p)) throws a
\* SyntaxError: some pattern has a group that is not closed
throwsSyntaxError(patterns) ==
  \E k \in 1..Len(patterns) :
    \E i \in 1..Len(patterns[k].literal) : patterns[k].literal[i] = "("

\* configSchema.safeParse(data).success, for the fields the scan reads:
\* countLines is a boolean, exclude and exclude-patterns are arrays of
\* strings of any characters; no pattern is compiled
configSchema(data) ==
  /\ data.countLines \in BOOLEAN
  /\ \A item \in data.exclude : DOMAIN item = 1..Len(item)
  /\ \A k \in 1..Len(data.patterns) :
       DOMAIN data.patterns[k].literal = 1..Len(data.patterns[k].literal)

\* the walk has not been started
WalkIdle ==
  /\ pc = "idle"
  /\ config = [exclude |-> {}, patterns |-> <<>>, countLines |-> FALSE, outDir |-> FALSE]
  /\ fsys = [root |-> <<>>, list |-> <<>>, size |-> <<>>, faults |-> NoFaults]
  /\ stack = <<>>
  /\ progressTracker = [current |-> 0, total |-> 0]
  /\ outputs = <<>>
  /\ logged = <<>>
  /\ console = <<>>
  /\ bar = [active |-> FALSE, value |-> 0]

----------------------------------------------------------------------------
(* Inputs *)

\* the number of addFile / addDirectory calls on one collector
MaxCalls == 3

\* the number of addFile calls in the largest-files runs
MaxTopCalls == 6

\* the number of lines of a generated file content
MaxLines == 3

LineHash == <<"#", " ", "c", "o", "m", "m", "e", "n", "t">>
LineEmpty == <<>>
LineCodeLine == <<"c", "o", "d", "e", "_", "l", "i", "n", "e", "(", ")">>
LineStart == <<"/", "*", " ", "s", "t", "a", "r", "t">>
LineMiddle == <<"m", "i", "d", "d", "l", "e">>
LineEnd == <<"e", "n", "d", " ", "*", "/">>
LineCode == <<"c", "o", "d", "e", "(", ")", ";">>
LineQuotes == <<"\"", "\"", "\"">>
LineTrailing == <<"c", "o", "d", "e", "(", ")", ";", " ", "/", "/", " ", "t", "r", "a", "i", "l", "i", "n", "g", " ", "c", "o", "m", "m", "e", "n", "t">>
LineSpace == <<" ">>

LineSamples ==
  {LineHash, LineEmpty, LineCodeLine, LineStart, LineMiddle, LineEnd, LineCode,
   LineQuotes, LineTrailing, LineSpace}

\* the lines separated by newlines
RECURSIVE joinLines(_)
joinLines(lines) ==
  IF lines = <<>> THEN <<>>
  ELSE IF Len(lines) = 1 THEN lines[1]
  ELSE lines[1] \o <<NL>> \o joinLines(Tail(lines))

\* the lines, each terminated by a newline
RECURSIVE terminateLines(_)
terminateLines(lines) ==
  IF lines = <<>> THEN <<>>
  ELSE lines[1] \o <<NL>> \o terminateLines(Tail(lines))

\* "# comment\n\ncode_line()\n"
PyExample == terminateLines(<<LineHash, LineEmpty, LineCodeLine>>)

\* "/* start\nmiddle\nend */\ncode();\n"
JsExample == terminateLines(<<LineStart, LineMiddle, LineEnd, LineCode>>)

BoundedLines == UNION {[1..n -> LineSamples] : n \in 0..MaxLines}

LineContents ==
  {joinLines(ls) : ls \in BoundedLines} \cup {terminateLines(ls) : ls \in BoundedLines}
    \cup {PyExample, JsExample}

PathPy == <<"/", "r", "/", "m", ".", "p", "y">>
PathJs == <<"/", "r", "/", "b", ".", "j", "s">>
PathTxt == <<"/", "r", "/", "n", "o", "t", "e", "s", ".", "t", "x", "t">>

LinePaths == {PathPy, PathJs, PathTxt}

\* the files handed to addFile in the collector runs
PathDeepTxt == <<"/", "r", "/", "d", "/", "N", ".", "T", "X", "T">>
PathDeepPy == <<"/", "r", "/", "e", "/", "m", ".", "p", "y">>
PathMakefile == <<"/", "r", "/", "M", "a", "k", "e", "f", "i", "l", "e">>

StatsPaths == {PathMakefile, PathDeepTxt, PathDeepPy}

StatsSizes == {10, 25}

FileContent(filePath) ==
  IF filePath = PathDeepPy THEN PyExample
  ELSE IF filePath = PathDeepTxt THEN joinLines(<<LineMiddle, LineEmpty>>)
  ELSE joinLines(<<LineHash, LineCode>>)

\* the (path, size) pairs of the largest-files runs
TopInputs ==
  {[path |-> <<"/", "r", "/", "f", "1">>, size |-> 100],
   [path |-> <<"/", "r", "/", "f", "2">>, size |-> 50],
   [path |-> <<"/", "r", "/", "f", "3">>, size |-> 200],
   [path |-> <<"/", "r", "/", "f", "4">>, size |-> 10],
   [path |-> <<"/", "r", "/", "f", "5">>, size |-> 300],
   [path |-> <<"/", "r", "/", "f", "6">>, size |-> 5],
   [path |-> <<"/", "r", "/", "f", "7">>, size |-> 10],
   [path |-> <<"/", "r", "/", "f", "8">>, size |-> 300]}


\* the number of file-system calls that fail in one run
MaxFaults == 1

Root == <<"/", "r">>
NameHidden == <<".", "h", "i", "d", "d", "e", "n">>
NameATxt == <<"a", ".", "t", "x", "t">>
NameNodeModules == <<"n", "o", "d", "e", "_", "m", "o", "d", "u", "l", "e", "s">>
NameXTxt == <<"x", ".", "t", "x", "t">>
NameYJs == <<"y", ".", "j", "s">>
NameSrc == <<"s", "r", "c">>
NameSub == <<"s", "u", "b">>
NameBJs == <<"b", ".", "j", "s">>

\* {a.txt (10 bytes), .hidden/x.txt, node_modules/y.js}
ExampleTree ==
  [root |-> Root,
   list |-> (Root :> <<NameHidden, NameATxt, NameNodeModules>>)
         @@ (join(Root, NameHidden) :> <<NameXTxt>>)
         @@ (join(Root, NameNodeModules) :> <<NameYJs>>),
   size |-> (join(Root, NameATxt) :> 10)
         @@ (join(join(Root, NameHidden), NameXTxt) :> 3)
         @@ (join(join(Root, NameNodeModules), NameYJs) :> 7)]

\* {src/{b.js, sub/{y.js}, a.txt}, b.js}
NestedTree ==
  [root |-> Root,
   list |-> (Root :> <<NameSrc, NameBJs>>)
         @@ (join(Root, NameSrc) :> <<NameBJs, NameSub, NameATxt>>)
         @@ (join(join(Root, NameSrc), NameSub) :> <<NameYJs>>),
   size |-> (join(Root, NameBJs) :> 25)
         @@ (join(join(Root, NameSrc), NameBJs) :> 10)
         @@ (join(join(Root, NameSrc), NameATxt) :> 0)
         @@ (join(join(join(Root, NameSrc), NameSub), NameYJs) :> 7)]

Trees == {ExampleTree, NestedTree}

\* a directory of 21 files fa .. fu, for the estimate alone
WideTree ==
  [root |-> Root,
   list |-> (Root :> [i \in 1..21 |-> <<"f", LowerCase[i]>>]),
   size |-> [p \in {join(Root, <<"f", LowerCase[i]>>) : i \in 1..21} |-> 1]]

\* {d/d/d/d/d/{fa .. fp}}: 5 directories one inside the other and 16
\* files in the innermost, beyond the depth the estimator descends to
DeepDir(n) == [i \in 1..(Len(Root) + 2 * n) |->
                 IF i <= Len(Root) THEN Root[i]
                 ELSE IF (i - Len(Root)) % 2 = 1 THEN SEP ELSE "d"]

DeepTree ==
  [root |-> Root,
   list |-> [p \in {DeepDir(n) : n \in 0..5} |->
               IF p = DeepDir(5) THEN [i \in 1..16 |-> <<"f", LowerCase[i]>>]
               ELSE <<<<"d">>>>],
   size |-> [p \in {join(DeepDir(5), <<"f", LowerCase[i]>>) : i \in 1..16} |-> 1]]

\* every entry of a tree, by its path
EntryPaths(tree) ==
  UNION {{join(d, tree.list[d][i]) : i \in 1..Len(tree.list[d])} : d \in DOMAIN tree.list}

\* ^\.
PatternDot == RegExp(TRUE, <<".">>, FALSE)
\* ^src/b
PatternSrcB == RegExp(TRUE, <<"s", "r", "c", "/", "b">>, FALSE)
\* \.js$
PatternJsEnd == RegExp(FALSE, <<".", "j", "s">>, TRUE)
\* node
PatternNode == RegExp(FALSE, <<"n", "o", "d", "e">>, FALSE)
\* ( : accepted by the configuration schema, rejected by new RegExp
PatternUnterminated == RegExp(FALSE, <<"(">>, FALSE)

ExcludeChoices == {{}, {NameNodeModules}, {NameATxt, NameSub}}

PatternChoices ==
  {<<>>, <<PatternDot>>, <<PatternSrcB>>, <<PatternNode, PatternJsEnd>>,
   <<PatternUnterminated>>}

\* the sets of at most MaxFaults failing calls of a tree
FaultChoices(tree) ==
  LET all == {[kind |-> "readdir", path |-> d] : d \in DOMAIN tree.list}
               \cup {[kind |-> "stat", path |-> e] : e \in EntryPaths(tree) \cup {tree.root}}
               \cup {[kind |-> "read", path |-> f] : f \in DOMAIN tree.size}
  IN {[readdir |-> {x.path : x \in {y \in S : y.kind = "readdir"}},
       stat |-> {x.path : x \in {y \in S : y.kind = "stat"}},
       read |-> {x.path : x \in {y \in S : y.kind = "read"}}] :
        S \in {T \in SUBSET all : Cardinality(T) <= MaxFaults}}

----------------------------------------------------------------------------
(* Runs of the collector: any sequence of calls on a fresh collector *)

\* collector.addFile(filePath, size), the file read giving rd
AddFile(filePath, size, rd) ==
  /\ ~threw
  /\ LET r == addFile(stats, countLines, filePath, size, rd)
     IN /\ stats' = r.stats
        /\ threw' = r.threw
        /\ calls' = Append(calls, [op |-> "addFile", path |-> filePath,
                                   size |-> size, lineInfo |-> r.lineInfo,
                                   readFailed |-> countLines /\ ~rd.ok])
  /\ lastOp' = "addFile"
  /\ UNCHANGED <<countLines, lc, walkVars>>

\* collector.addDirectory()
AddDirectory ==
  /\ ~threw
  /\ stats' = addDirectory(stats)
  /\ calls' = Append(calls, [op |-> "addDirectory", path |-> <<>>,
                             size |-> 0, lineInfo |-> NullInfo,
                             readFailed |-> FALSE])
  /\ lastOp' = "addDirectory"
  /\ UNCHANGED <<countLines, threw, lc, walkVars>>

\* collector.finalize()
Finalize ==
  /\ ~threw
  /\ stats' = finalize(stats)
  /\ lastOp' = IF lastOp \in {"finalize", "finalize again"}
               THEN "finalize again" ELSE "finalize"
  /\ UNCHANGED <<countLines, calls, threw, lc, walkVars>>

InitStats ==
  /\ stats = InitialStats
  /\ countLines \in BOOLEAN
  /\ calls = <<>>
  /\ threw = FALSE
  /\ lastOp = "new"
  /\ lc = LineCounterIdle
  /\ WalkIdle

StatsAddFile ==
  /\ Len(calls) < MaxCalls
  /\ \E filePath \in StatsPaths, size \in StatsSizes :
       \E rd \in {ReadOk(FileContent(filePath)), ReadError} :
         AddFile(filePath, size, rd)

StatsAddDirectory ==
  /\ Len(calls) < MaxCalls
  /\ AddDirectory

NextStats == StatsAddFile \/ StatsAddDirectory \/ Finalize

SpecStats == InitStats /\ [][NextStats]_vars

\* the largest-files runs: addFile only, line counting off, each file added
\* once as in a walk
InitTop ==
  /\ stats = InitialStats
  /\ countLines = FALSE
  /\ calls = <<>>
  /\ threw = FALSE
  /\ lastOp = "new"
  /\ lc = LineCounterIdle
  /\ WalkIdle

TopAddFile ==
  /\ Len(calls) < MaxTopCalls
  /\ \E in \in TopInputs :
       /\ \A i \in 1..Len(calls) : calls[i].path # in.path
       /\ AddFile(in.path, in.size, ReadError)

NextTop == TopAddFile

SpecTop == InitTop /\ [][NextTop]_vars

----------------------------------------------------------------------------
(* Runs of the line counter: one call of countLinesInFile *)

InitLines ==
  /\ stats = InitialStats
  /\ countLines = TRUE
  /\ calls = <<>>
  /\ threw = FALSE
  /\ lastOp = "new"
  /\ WalkIdle
  /\ \E filePath \in LinePaths :
       \E rd \in {ReadOk(c) : c \in LineContents} \cup {ReadError} :
         lc = [LineCounterIdle EXCEPT !.pc = "call", !.filePath = filePath, !.rd = rd]

NextLines == CountBegin \/ CountLine \/ CountReturn

SpecLines == InitLines /\ [][NextLines]_vars


----------------------------------------------------------------------------
(* listDir.ts: estimateItemCount, listDirRecursive, executeListDir *)

\* the depth bound of the estimate
maxDepth == 4

\* the filter of countRecursive: the exclude list and the patterns, on the
\* entry name
estimateKeeps(cfg, item) ==
  /\ item \notin cfg.exclude
  /\ \A k \in 1..Len(cfg.patterns) : ~test(cfg.patterns[k], item)

\* countRecursive(currentPath, depth): what it adds to count
RECURSIVE countRecursive(_, _, _, _)
countRecursive(fs, cfg, currentPath, depth) ==
  IF depth > maxDepth THEN 0
  ELSE IF currentPath \in fs.faults.readdir \/ throwsSyntaxError(cfg.patterns) THEN 0
  ELSE LET filteredItems ==
             SelectSeq(fs.list[currentPath], LAMBDA item : estimateKeeps(cfg, item))
           below(item) ==
             LET itemPath == join(currentPath, item)
             IN IF itemPath \in fs.faults.stat THEN 0
                ELSE IF itemPath \in DOMAIN fs.list
                     THEN countRecursive(fs, cfg, itemPath, depth + 1)
                     ELSE 0
           sumBelow[i \in 0..Len(filteredItems)] ==
             IF i = 0 THEN 0 ELSE sumBelow[i - 1] + below(filteredItems[i])
       IN Len(filteredItems) + sumBelow[Len(filteredItems)]

\* as estimateItemCount, returning count itself
estimateItemCount_noFloor(fs, cfg) ==
  countRecursive(fs, cfg, fs.root, 0)

\* estimateItemCount
estimateItemCount(fs, cfg) ==
  LET count == countRecursive(fs, cfg, fs.root, 0)
  IN IF count > 20 THEN count ELSE 20

\* as walkKeeps, with the patterns tested on the entry name only
walkKeeps_nameOnly(cfg, rootScanPath, dirPath, item) ==
  IF item \in cfg.exclude THEN FALSE
  ELSE \A k \in 1..Len(cfg.patterns) : ~test(cfg.patterns[k], item)

\* the filter of listDirRecursive: the callback of items.filter
walkKeeps(cfg, rootScanPath, dirPath, item) ==
  LET itemPath == join(dirPath, item)
      relativePath == relative(rootScanPath, itemPath)
  IN IF item \in cfg.exclude THEN FALSE
     ELSE \A k \in 1..Len(cfg.patterns) :
            ~(test(cfg.patterns[k], item) \/ test(cfg.patterns[k], relativePath))

\* the pieces of a tree line
BranchLast == "+-- "
BranchMid == "|-- "
IndentLast == "    "
IndentMid == "|   "

Line(prefix, marker, kind, name) ==
  [prefix |-> prefix, marker |-> marker, kind |-> kind, name |-> name]

\* as newPrefix, with the four spaces whatever isLast is
newPrefix_spaces(prefix, isLast) == Append(prefix, IndentLast)

\* newPrefix: the prefix handed to the entries of a directory
newPrefix(prefix, isLast) == Append(prefix, IF isLast THEN IndentLast ELSE IndentMid)

\* entryPrefix, less the prefix: the branch glyph of an entry
entryPrefix(isLast) == IF isLast THEN BranchLast ELSE BranchMid

\* console.log / console.error of one of the fixed messages
Message(text) == [message |-> text]

\* as scanLog, with unshift in place of push on the file path
scanLog_prepend(outs, lines) == IF config.outDir THEN lines \o outs ELSE outs

\* outputManager.log as replaced for the scan: nothing on the console
\* path, a push to outputs on the file path
scanLog(outs, lines) == IF config.outDir THEN outs \o lines ELSE outs

\* as percentage, without the Math.min
percentage_noCap(current, total) == (200 * current + total) \div (2 * total)

\* Math.min(Math.round((current / total) * 100), 100)
percentage(current, total) ==
  LET rounded == (200 * current + total) \div (2 * total)
  IN IF rounded < 100 THEN rounded ELSE 100

\* OutputManager.updateProgress, ProgressManager.updateProgress
updateProgress(b, current, total) ==
  IF total > 0 /\ b.active
  THEN [b EXCEPT !.value = percentage(current, total)]
  ELSE b

\* as enterDirectory, without the try around readdirSync and with a
\* readdirSync that never fails
enterDirectory_ignoreError(dirPath, prefix) ==
  IF throwsSyntaxError(config.patterns)
  THEN [frames |-> <<>>, lines |-> <<>>, thrown |-> TRUE]
  ELSE [frames |-> <<[dirPath |-> dirPath, prefix |-> prefix,
                      filteredItems |->
                        SelectSeq(fsys.list[dirPath],
                          LAMBDA item : walkKeeps(config, fsys.root, dirPath, item)),
                      index |-> 1]>>,
        lines |-> <<>>,
        thrown |-> FALSE]

\* the start of listDirRecursive(dirPath, prefix): the placeholder line
\* and the return when readdirSync fails, the exception when a pattern
\* does not compile, else the filtered items
enterDirectory(dirPath, prefix) ==
  IF dirPath \in fsys.faults.readdir
  THEN [frames |-> <<>>,
        lines |-> <<Line(prefix, BranchLast, "readdir error", basename(dirPath))>>,
        thrown |-> FALSE]
  ELSE IF throwsSyntaxError(config.patterns)
  THEN [frames |-> <<>>, lines |-> <<>>, thrown |-> TRUE]
  ELSE [frames |-> <<[dirPath |-> dirPath, prefix |-> prefix,
                      filteredItems |->
                        SelectSeq(fsys.list[dirPath],
                          LAMBDA item : walkKeeps(config, fsys.root, dirPath, item)),
                      index |-> 1]>>,
        lines |-> <<>>,
        thrown |-> FALSE]

\* the entries of logged for the lines of one entry
RECURSIVE Logged(_, _)
Logged(lines, itemPath) ==
  IF lines = <<>> THEN <<>>
  ELSE <<[line |-> Head(lines), path |-> itemPath]>> \o Logged(Tail(lines), itemPath)

\* executeListDir up to the scan: the output manager, the root check, the
\* estimate, the progress bar, the tracker
Start ==
  /\ pc = "start"
  /\ stats' = InitialStats
  /\ countLines' = config.countLines
  /\ IF fsys.root \in fsys.faults.stat
     THEN /\ pc' = "exit"
          /\ console' = Append(console, Message("error"))
          /\ UNCHANGED <<progressTracker, bar>>
     ELSE /\ pc' = "swap log"
          /\ console' = Append(console, Message("analyzing"))
          /\ progressTracker' = [current |-> 0, total |-> estimateItemCount(fsys, config)]
          /\ bar' = [active |-> ~config.outDir, value |-> 0]
  /\ UNCHANGED <<calls, threw, lastOp, lc, config, fsys, stack, outputs, logged>>

\* the scanning phase up to the first listDirRecursive call; an exception
\* of that call reaches the catch of executeListDir
ScanBegin ==
  /\ pc = "swap log"
  /\ LET entered == enterDirectory(fsys.root, <<>>)
     IN /\ IF entered.thrown
           THEN /\ pc' = "exit"
                /\ bar' = [bar EXCEPT !.active = FALSE]
                /\ console' = console
                                 \o (IF config.outDir THEN <<>> ELSE <<Message("")>>)
                                 \o <<Message("error")>>
           ELSE /\ pc' = "scan"
                /\ UNCHANGED <<console, bar>>
        /\ stack' = entered.frames
        /\ logged' = Logged(entered.lines, fsys.root)
        /\ IF config.outDir
           THEN /\ outputs' = <<Line(<<>>, "", "root", basename(fsys.root))>> \o entered.lines
                /\ UNCHANGED <<stats, calls, lastOp>>
           ELSE /\ stats' = addDirectory(stats)
                /\ calls' = Append(calls, [op |-> "addDirectory", path |-> fsys.root,
                                           size |-> 0, lineInfo |-> NullInfo,
                                           readFailed |-> FALSE])
                /\ lastOp' = "addDirectory"
                /\ UNCHANGED outputs
  /\ UNCHANGED <<countLines, threw, lc, config, fsys, progressTracker>>

\* as WalkEntry, with the progress incremented in the catch as well
WalkEntry_countsError ==
  /\ pc = "scan"
  /\ stack # <<>>
  /\ LET f == stack[Len(stack)]
     IN /\ f.index <= Len(f.filteredItems)
        /\ LET item == f.filteredItems[f.index]
               itemPath == join(f.dirPath, item)
               isLast == f.index = Len(f.filteredItems)
               marker == entryPrefix(isLast)
               outer == SubSeq(stack, 1, Len(stack) - 1)
                          \o <<[f EXCEPT !.index = f.index + 1]>>
               next == [current |-> progressTracker.current + 1,
                        total |-> progressTracker.total]
           IN IF itemPath \in fsys.faults.stat
              THEN LET lines == <<Line(f.prefix, marker, "stat error", item)>>
                   IN /\ outputs' = scanLog(outputs, lines)
                      /\ logged' = logged \o Logged(lines, itemPath)
                      /\ stack' = outer
                      /\ progressTracker' = next
                      /\ bar' = updateProgress(bar, next.current, next.total)
                      /\ UNCHANGED <<stats, calls, threw, lastOp>>
              ELSE IF itemPath \in DOMAIN fsys.list
              THEN LET entered == enterDirectory(itemPath, newPrefix(f.prefix, isLast))
                       lines == <<Line(f.prefix, marker, "dir", item)>>
                                  \o entered.lines
                                  \o (IF entered.thrown
                                      THEN <<Line(f.prefix, marker, "stat error", item)>>
                                      ELSE <<>>)
                   IN /\ outputs' = scanLog(outputs, lines)
                      /\ logged' = logged \o Logged(lines, itemPath)
                      /\ stats' = addDirectory(stats)
                      /\ calls' = Append(calls,
                                    [op |-> "addDirectory", path |-> itemPath, size |-> 0,
                                     lineInfo |-> NullInfo, readFailed |-> FALSE])
                      /\ lastOp' = "addDirectory"
                      /\ progressTracker' = next
                      /\ bar' = updateProgress(bar, next.current, next.total)
                      /\ stack' = outer \o entered.frames
                      /\ UNCHANGED threw
              ELSE LET lines == <<Line(f.prefix, marker, "file", item)>>
                       rd == IF itemPath \in fsys.faults.read THEN ReadError
                             ELSE ReadOk(FileContent(itemPath))
                       r == addFile(stats, countLines, itemPath, fsys.size[itemPath], rd)
                   IN /\ outputs' = scanLog(outputs, lines)
                      /\ logged' = logged \o Logged(lines, itemPath)
                      /\ stats' = r.stats
                      /\ calls' = Append(calls,
                                    [op |-> "addFile", path |-> itemPath,
                                     size |-> fsys.size[itemPath], lineInfo |-> r.lineInfo,
                                     readFailed |-> countLines /\ ~rd.ok])
                      /\ lastOp' = "addFile"
                      /\ progressTracker' = next
                      /\ bar' = updateProgress(bar, next.current, next.total)
                      /\ stack' = outer
                      /\ UNCHANGED threw
  /\ UNCHANGED <<countLines, lc, pc, config, fsys, console>>

\* one iteration of filteredItems.forEach in the innermost call
WalkEntry ==
  /\ pc = "scan"
  /\ stack # <<>>
  /\ LET f == stack[Len(stack)]
     IN /\ f.index <= Len(f.filteredItems)
        /\ LET item == f.filteredItems[f.index]
               itemPath == join(f.dirPath, item)
               isLast == f.index = Len(f.filteredItems)
               marker == entryPrefix(isLast)
               outer == SubSeq(stack, 1, Len(stack) - 1)
                          \o <<[f EXCEPT !.index = f.index + 1]>>
               next == [current |-> progressTracker.current + 1,
                        total |-> progressTracker.total]
           IN IF itemPath \in fsys.faults.stat
              THEN LET lines == <<Line(f.prefix, marker, "stat error", item)>>
                   IN /\ outputs' = scanLog(outputs, lines)
                      /\ logged' = logged \o Logged(lines, itemPath)
                      /\ stack' = outer
                      /\ UNCHANGED <<stats, calls, threw, lastOp, progressTracker, bar>>
              ELSE IF itemPath \in DOMAIN fsys.list
              THEN LET entered == enterDirectory(itemPath, newPrefix(f.prefix, isLast))
                       lines == <<Line(f.prefix, marker, "dir", item)>>
                                  \o entered.lines
                                  \o (IF entered.thrown
                                      THEN <<Line(f.prefix, marker, "stat error", item)>>
                                      ELSE <<>>)
                   IN /\ outputs' = scanLog(outputs, lines)
                      /\ logged' = logged \o Logged(lines, itemPath)
                      /\ stats' = addDirectory(stats)
                      /\ calls' = Append(calls,
                                    [op |-> "addDirectory", path |-> itemPath, size |-> 0,
                                     lineInfo |-> NullInfo, readFailed |-> FALSE])
                      /\ lastOp' = "addDirectory"
                      /\ progressTracker' = next
                      /\ bar' = updateProgress(bar, next.current, next.total)
                      /\ stack' = outer \o entered.frames
                      /\ UNCHANGED threw
              ELSE LET lines == <<Line(f.prefix, marker, "file", item)>>
                       rd == IF itemPath \in fsys.faults.read THEN ReadError
                             ELSE ReadOk(FileContent(itemPath))
                       r == addFile(stats, countLines, itemPath, fsys.size[itemPath], rd)
                   IN /\ outputs' = scanLog(outputs, lines)
                      /\ logged' = logged \o Logged(lines, itemPath)
                      /\ stats' = r.stats
                      /\ calls' = Append(calls,
                                    [op |-> "addFile", path |-> itemPath,
                                     size |-> fsys.size[itemPath], lineInfo |-> r.lineInfo,
                                     readFailed |-> countLines /\ ~rd.ok])
                      /\ lastOp' = "addFile"
                      /\ progressTracker' = next
                      /\ bar' = updateProgress(bar, next.current, next.total)
                      /\ stack' = outer
                      /\ UNCHANGED threw
  /\ UNCHANGED <<countLines, lc, pc, config, fsys, console>>

\* forEach is over in the innermost call: listDirRecursive returns
WalkReturn ==
  /\ pc = "scan"
  /\ stack # <<>>
  /\ stack[Len(stack)].index > Len(stack[Len(stack)].filteredItems)
  /\ stack' = SubSeq(stack, 1, Len(stack) - 1)
  /\ UNCHANGED <<collectorVars, lc, pc, config, fsys, progressTracker, outputs,
                 logged, console, bar>>

\* the outermost call has returned: the log is restored and the progress
\* completed
ScanEnd ==
  /\ pc = "scan"
  /\ stack = <<>>
  /\ pc' = "report"
  /\ bar' = [bar EXCEPT !.active = FALSE]
  /\ console' = console \o (IF config.outDir THEN <<>> ELSE <<Message("")>>)
                         \o <<Message("completed")>>
  /\ UNCHANGED <<collectorVars, lc, config, fsys, stack, progressTracker, outputs, logged>>

\* the results phase: the terminal report on the console, and on the file
\* path the statistics, the headers and the tree put into outputs
Report ==
  /\ pc = "report"
  /\ pc' = "done"
  /\ stats' = IF config.outDir THEN finalize(finalize(stats)) ELSE finalize(stats)
  /\ lastOp' = IF config.outDir THEN "finalize again" ELSE "finalize"
  /\ console' = console \o <<Message("generating"),
                            [report |-> "terminal", stats |-> finalize(stats)]>>
  /\ outputs' = IF config.outDir
                THEN <<[report |-> "simple", stats |-> finalize(stats)],
                       "tree header", "rule", "">> \o outputs
                ELSE outputs
  /\ UNCHANGED <<countLines, calls, threw, lc, config, fsys, stack, progressTracker,
                 logged, bar>>

InitWalk ==
  /\ stats = InitialStats
  /\ countLines = FALSE
  /\ calls = <<>>
  /\ threw = FALSE
  /\ lastOp = "new"
  /\ lc = LineCounterIdle
  /\ pc = "start"
  /\ \/ \E tree \in Trees :
          \E faults \in FaultChoices(tree) :
            fsys = [root |-> tree.root, list |-> tree.list, size |-> tree.size,
                    faults |-> faults]
     \/ fsys = [root |-> DeepTree.root, list |-> DeepTree.list,
                size |-> DeepTree.size, faults |-> NoFaults]
  /\ \E exclude \in ExcludeChoices, patterns \in PatternChoices :
       \E cl \in BOOLEAN, outDir \in BOOLEAN :
         /\ config = [exclude |-> exclude, patterns |-> patterns,
                      countLines |-> cl, outDir |-> outDir]
         /\ configSchema(config)
  /\ stack = <<>>
  /\ progressTracker = [current |-> 0, total |-> 0]
  /\ outputs = <<>>
  /\ logged = <<>>
  /\ console = <<>>
  /\ bar = [active |-> FALSE, value |-> 0]

NextWalk == Start \/ ScanBegin \/ WalkEntry \/ WalkReturn \/ ScanEnd \/ Report

SpecWalk == InitWalk /\ [][NextWalk]_vars

----------------------------------------------------------------------------
(* Properties of the collector *)

\* the addFile calls made so far, in order
FileCalls == SelectSeq(calls, LAMBDA c : c.op = "addFile")

RECURSIVE SumOfSizes(_)
SumOfSizes(cs) == IF cs = <<>> THEN 0 ELSE Head(cs).size + SumOfSizes(Tail(cs))

Range(f) == {f[i] : i \in DOMAIN f}

\* C1: totalFiles is the number of addFile calls and totalSize the exact sum
\* of the sizes passed, with or without line counting and read failures
C1_TotalsMatchCalls ==
  /\ stats.totalFiles = Len(FileCalls)
  /\ stats.totalSize = SumOfSizes(FileCalls)

C1_Witness ==
  /\ countLines
  /\ Len(FileCalls) = 3
  /\ \E i \in 1..3 : FileCalls[i].readFailed
  /\ \E i \in 1..3 : ~FileCalls[i].readFailed
  /\ stats.totalSize = 45

\* call i ranks before call j: larger, or as large and added earlier
RanksBefore(i, j) ==
  \/ FileCalls[i].size > FileCalls[j].size
  \/ FileCalls[i].size = FileCalls[j].size /\ i < j

\* the number of calls ranking before call i
RankOf(i) == Cardinality({j \in 1..Len(FileCalls) : RanksBefore(j, i)})

SizesOf(seq) == [i \in 1..Len(seq) |-> seq[i].size]

\* C2: largestFiles has at most 5 entries, is sorted by non-increasing size
\* and is the true top 5 of the files added, ties in insertion order; the
\* sizes 100, 50, 200, 10, 300, 5 give 300, 200, 100, 50, 10
C2_LargestFilesAreTopFive ==
  LET lf == stats.largestFiles
  IN /\ Len(lf) <= 5
     /\ \A k \in 1..(Len(lf) - 1) : lf[k].size >= lf[k + 1].size
     /\ Len(lf) = IF Len(FileCalls) < 5 THEN Len(FileCalls) ELSE 5
     /\ \A k \in 1..Len(lf) :
          \E i \in 1..Len(FileCalls) :
            /\ RankOf(i) = k - 1
            /\ lf[k] = [name |-> basename(FileCalls[i].path),
                        size |-> FileCalls[i].size,
                        path |-> FileCalls[i].path]
     /\ (SizesOf(FileCalls) = <<100, 50, 200, 10, 300, 5>>
           => SizesOf(lf) = <<300, 200, 100, 50, 10>>)

C2_Witness ==
  /\ SizesOf(FileCalls) = <<100, 50, 200, 10, 300, 10>>
  /\ Len(stats.largestFiles) = 5
  /\ stats.largestFiles[5].path = FileCalls[4].path

\* the number of components of a path: its separators plus one
Segments(filePath) == Cardinality({i \in 1..Len(filePath) : filePath[i] = SEP}) + 1

MaxSegments ==
  IF FileCalls = <<>> THEN 0
  ELSE CHOOSE d \in {Segments(FileCalls[i].path) : i \in 1..Len(FileCalls)} :
         \A i \in 1..Len(FileCalls) : Segments(FileCalls[i].path) <= d

\* C3: deepestPath.depth is the largest number of path components over the
\* paths added, deepestPath.path is the first path added that reaches it,
\* and the stored pair changes only to a strictly greater depth
C3_DeepestPathIsFirstMaximum ==
  /\ [](/\ stats.deepestPath.depth = MaxSegments
        /\ FileCalls # <<>> =>
             \E i \in 1..Len(FileCalls) :
               /\ Segments(FileCalls[i].path) = MaxSegments
               /\ \A j \in 1..(i - 1) : Segments(FileCalls[j].path) < MaxSegments
               /\ stats.deepestPath.path = FileCalls[i].path)
  /\ [][stats'.deepestPath # stats.deepestPath
          => stats'.deepestPath.depth > stats.deepestPath.depth]_vars

C3_Witness ==
  /\ Len(FileCalls) = 3
  /\ FileCalls[1].path = PathMakefile
  /\ FileCalls[2].path = PathDeepTxt
  /\ FileCalls[3].path = PathDeepPy
  /\ stats.deepestPath = [path |-> PathDeepTxt, depth |-> 4]

LineCountAddsUp(lcnt) == lcnt.total = lcnt.code + lcnt.comments + lcnt.blank

\* C4: every LineCount satisfies total = code + comments + blank: each
\* per-file result (code file or not), totalLines, each linesByExtension entry
C4_LineCountsAddUp ==
  /\ \A i \in 1..Len(FileCalls) :
       FileCalls[i].lineInfo.tag = "info"
         => LineCountAddsUp(FileCalls[i].lineInfo.lineCount)
  /\ LineCountAddsUp(stats.totalLines)
  /\ \A ext \in DOMAIN stats.linesByExtension :
       LineCountAddsUp(stats.linesByExtension[ext])

\* C6: finalize sets avgFileSize to totalSize / totalFiles, to 0 without
\* files, changes no other field, and a second finalize changes nothing
C6_FinalizeAverageIdempotent ==
  [][lastOp' \in {"finalize", "finalize again"}
       => /\ stats' = [stats EXCEPT !.avgFileSize = stats'.avgFileSize]
          /\ stats'.avgFileSize.den > 0
          /\ IF stats.totalFiles > 0
             THEN stats'.avgFileSize.num * stats.totalFiles
                    = stats.totalSize * stats'.avgFileSize.den
             ELSE stats'.avgFileSize.num = 0
          /\ (lastOp \in {"finalize", "finalize again"} => stats' = stats)]_vars

C6_Witness ==
  /\ lastOp = "finalize again"
  /\ stats.totalFiles = 2
  /\ stats.avgFileSize = [num |-> 35, den |-> 2]

\* the last call made on the collector
LastCall == calls[Len(calls)]

\* C10: when the read of the line counter fails, addFile still counts the
\* file, its size, its extension, its rank and its depth, adds nothing to
\* the line statistics, and does not throw
C10_ReadFailureKeepsSizeStats ==
  [][(/\ Len(calls') = Len(calls) + 1
      /\ calls'[Len(calls')].op = "addFile"
      /\ calls'[Len(calls')].readFailed)
       => LET c == calls'[Len(calls')]
              ext == extKey(c.path)
          IN /\ ~threw'
             /\ c.lineInfo = NullInfo
             /\ stats'.totalFiles = stats.totalFiles + 1
             /\ stats'.totalSize = stats.totalSize + c.size
             /\ stats'.filesByExtension[ext] = getOr(stats.filesByExtension, ext, 0) + 1
             /\ stats'.sizeByExtension[ext] = getOr(stats.sizeByExtension, ext, 0) + c.size
             /\ Len(stats.largestFiles) < TopN =>
                  /\ Len(stats'.largestFiles) = Len(stats.largestFiles) + 1
                  /\ [name |-> basename(c.path), size |-> c.size, path |-> c.path]
                       \in Range(stats'.largestFiles)
             /\ stats'.deepestPath.depth >= Segments(c.path)
             /\ stats'.totalLines = stats.totalLines
             /\ stats'.linesByExtension = stats.linesByExtension
             /\ stats'.codeFileCount = stats.codeFileCount
             /\ stats'.nonCodeFileCount = stats.nonCodeFileCount]_vars

C10_Witness ==
  /\ countLines
  /\ ~threw
  /\ Len(calls) = 2
  /\ calls[1].op = "addFile" /\ calls[1].lineInfo.tag = "info"
  /\ LastCall.op = "addFile" /\ LastCall.readFailed
  /\ stats.totalFiles = 2
  /\ stats.codeFileCount + stats.nonCodeFileCount = 1

----------------------------------------------------------------------------
(* Properties of the line counter *)

IsCodePath(filePath) == toLowerCase(extname(filePath)) \in CODE_EXTENSIONS

\* the number of newline characters of a content
Newlines(content) == Cardinality({i \in 1..Len(content) : content[i] = NL})

\* C8: a code file of n newline-terminated lines has total = n, the final
\* newline adding no blank line; "# comment\n\ncode_line()\n" in a .py file
\* gives total 3, code 1, comments 1, blank 1
C8_TerminatedLinesTotal ==
  (/\ lc.pc = "done"
   /\ lc.rd.ok
   /\ IsCodePath(lc.filePath)
   /\ lc.rd.content # <<>>
   /\ lc.rd.content[Len(lc.rd.content)] = NL)
    => /\ lc.result.lineCount.total = Newlines(lc.rd.content)
       /\ (lc.filePath = PathPy /\ lc.rd.content = PyExample
             => lc.result.lineCount
                  = [total |-> 3, code |-> 1, comments |-> 1, blank |-> 1])

\* C9: "/* start\nmiddle\nend */\ncode();\n" in a .js file: lines 1 to 3 are
\* comments, line 4 is code, and the result is total 4, code 1, comments 3,
\* blank 0
C9_JsExampleCounts ==
  (/\ lc.pc = "done"
   /\ lc.filePath = PathJs
   /\ lc.rd = ReadOk(JsExample))
    => /\ SubSeq(lc.kinds, 1, 4) = <<"comments", "comments", "comments", "code">>
       /\ lc.result.lineCount
            = [total |-> 4, code |-> 1, comments |-> 3, blank |-> 0]


----------------------------------------------------------------------------
(* Properties of the walk *)

\* the exclusion decision for the entry at path p of the tree scanned
Excluded(p) ==
  \/ basename(p) \in config.exclude
  \/ \E k \in 1..Len(config.patterns) :
       \/ test(config.patterns[k], basename(p))
       \/ test(config.patterns[k], SubSeq(p, Len(fsys.root) + 2, Len(p)))

\* C5: an entry is excluded if its name is in the exclude list, whatever
\* the patterns, else if a pattern matches its name or its path relative to
\* the scan root, else kept; an excluded entry is neither emitted nor
\* passed to the collector
C5_WalkerExclusionDecision ==
  /\ \A n \in 1..Len(stack) :
       stack[n].filteredItems =
         SelectSeq(fsys.list[stack[n].dirPath],
                   LAMBDA item : ~Excluded(join(stack[n].dirPath, item)))
  /\ \A n \in 1..Len(logged) : logged[n].path # fsys.root => ~Excluded(logged[n].path)
  /\ \A n \in 1..Len(calls) : calls[n].path # fsys.root => ~Excluded(calls[n].path)

PathsOf(seq) == [n \in 1..Len(seq) |-> seq[n].path]

C5_Witness ==
  /\ pc = "done"
  /\ fsys.list = NestedTree.list
  /\ fsys.faults = NoFaults
  /\ config.outDir
  /\ config.exclude = {NameATxt, NameSub}
  /\ config.patterns = <<PatternSrcB>>
  /\ PathsOf(calls) = <<join(Root, NameSrc), join(Root, NameBJs)>>
  /\ PathsOf(logged) = PathsOf(calls)

\* q is a directory above p
IsAncestor(q, p) ==
  /\ Len(q) < Len(p)
  /\ SubSeq(p, 1, Len(q) + 1) = q \o <<SEP>>

\* p is not excluded and has no excluded ancestor below the root
Visible(p) ==
  \A q \in EntryPaths(fsys) : (q = p \/ IsAncestor(q, p)) => ~Excluded(q)

RECURSIVE SumOver(_, _)
SumOver(f, S) ==
  IF S = {} THEN 0
  ELSE LET x == CHOOSE y \in S : TRUE IN f[x] + SumOver(f, S \ {x})

\* C7: after the scan totalFiles counts the files that are not excluded and
\* have no excluded ancestor, totalSize sums their sizes, totalDirectories
\* counts such directories below the root, the root not counted; exclude
\* [node_modules] and ^\. on {a.txt (10), .hidden/x.txt, node_modules/y.js}
\* give 1 file, 0 directories, 10 bytes
C7_ScanTotals ==
  (pc \in {"report", "done"} /\ fsys.faults = NoFaults)
    => /\ stats.totalFiles = Cardinality({p \in DOMAIN fsys.size : Visible(p)})
       /\ stats.totalSize = SumOver(fsys.size, {p \in DOMAIN fsys.size : Visible(p)})
       /\ stats.totalDirectories
            = Cardinality({d \in (DOMAIN fsys.list) \ {fsys.root} : Visible(d)})
       /\ (/\ fsys.list = ExampleTree.list
           /\ config.exclude = {NameNodeModules}
           /\ config.patterns = <<PatternDot>>)
            => /\ stats.totalFiles = 1
               /\ stats.totalDirectories = 0
               /\ stats.totalSize = 10

----------------------------------------------------------------------------
(* Properties of the estimate *)

\* the number of directories between the scan root and the entry at p,
\* the root included
Level(fs, p) == Cardinality({i \in (Len(fs.root) + 1)..Len(p) : p[i] = SEP})

\* the estimator counts the entry at p: the patterns compile, the root is
\* listed, no more than maxDepth directories lie between the root and p, p
\* and the directories above it pass the estimator's filter, and each of
\* these directories can be stat-ed and listed
Counted(fs, cfg, p) ==
  /\ ~throwsSyntaxError(cfg.patterns)
  /\ fs.root \notin fs.faults.readdir
  /\ Level(fs, p) <= maxDepth + 1
  /\ estimateKeeps(cfg, basename(p))
  /\ \A q \in EntryPaths(fs) :
       IsAncestor(q, p) => /\ estimateKeeps(cfg, basename(q))
                           /\ q \notin fs.faults.stat
                           /\ q \notin fs.faults.readdir

RawCount(fs, cfg) == Cardinality({p \in EntryPaths(fs) : Counted(fs, cfg, p)})

AtLeast20(n) == IF n > 20 THEN n ELSE 20

WideFs(faults) ==
  [root |-> WideTree.root, list |-> WideTree.list, size |-> WideTree.size,
   faults |-> faults]

\* C11: the estimate never fails: whatever listing or stat call fails, the
\* estimator returns; a directory that cannot be listed and an entry that
\* cannot be stat-ed are counted themselves and add nothing below them,
\* the other entries are counted as without the failure; the result is
\* max(count, 20), the count itself above 20 and 20 otherwise
C11_EstimateNeverFails ==
  /\ countRecursive(fsys, config, fsys.root, 0) = RawCount(fsys, config)
  /\ estimateItemCount(fsys, config) = AtLeast20(RawCount(fsys, config))
  /\ (pc # "start" /\ fsys.root \notin fsys.faults.stat)
       => /\ progressTracker.total = AtLeast20(RawCount(fsys, config))
          /\ progressTracker.total >= 20
  /\ estimateItemCount(WideFs(NoFaults), config)
       = IF throwsSyntaxError(config.patterns) THEN 20 ELSE 21
  /\ estimateItemCount(WideFs([NoFaults EXCEPT !.stat = fsys.faults.stat \cup
                                                        {join(Root, <<"f", "a">>)}]),
                       config)
       = IF throwsSyntaxError(config.patterns) THEN 20 ELSE 21

\* the listing of src fails: src and b.js are counted, nothing below src,
\* and the scan runs to its end with the total 20
C11_Witness ==
  /\ pc = "done"
  /\ fsys.list = NestedTree.list
  /\ fsys.faults.readdir = {join(Root, NameSrc)}
  /\ config.exclude = {}
  /\ config.patterns = <<>>
  /\ countRecursive(fsys, config, fsys.root, 0) = 2
  /\ progressTracker.total = 20

\* the calls the walker made on the collector: all but the one for the
\* scan root, which executeListDir makes itself
WalkCalls == SelectSeq(calls, LAMBDA c : c.path # fsys.root)

\* C12: the estimator filters as the walker does: on a tree within the
\* depth bound and without failing calls, the estimator's count before the
\* floor is the number of addFile and addDirectory calls of the walk
C12_EstimateMatchesWalk ==
  (/\ pc \in {"report", "done"}
   /\ fsys.faults = NoFaults
   /\ \A p \in EntryPaths(fsys) : Level(fsys, p) <= maxDepth + 1)
    => countRecursive(fsys, config, fsys.root, 0) = Len(WalkCalls)

----------------------------------------------------------------------------
(* Properties of the walk under failing calls *)

\* path.dirname
Parent(p) ==
  LET at == {i \in 1..Len(p) : p[i] = SEP}
  IN SubSeq(p, 1, (CHOOSE i \in at : \A j \in at : j <= i) - 1)

\* the entries of a directory that the exclusion filter keeps, in listing
\* order
Survivors(dirPath) ==
  SelectSeq(fsys.list[dirPath], LAMBDA item : ~Excluded(join(dirPath, item)))

\* the positions in logged of the lines of one kind for the entry at p
LinesFor(p, kind) ==
  {n \in 1..Len(logged) : logged[n].path = p /\ logged[n].line.kind = kind}

\* the walk is over
Walked == pc \in {"report", "done"}

\* C13: a directory whose listing fails during the walk gets exactly one
\* placeholder line, right after its own line, none of its entries is
\* emitted, passed to the collector or iterated, the call returns
\* normally, and the surviving siblings after it are still emitted
C13_ListingFailureIsLocal ==
  \A d \in fsys.faults.readdir :
    /\ \A n \in 1..Len(logged) : ~IsAncestor(d, logged[n].path)
    /\ \A n \in 1..Len(calls) : ~IsAncestor(d, calls[n].path)
    /\ \A n \in 1..Len(stack) : stack[n].dirPath # d
    /\ Cardinality(LinesFor(d, "readdir error")) <= 1
    /\ \A n \in LinesFor(d, "readdir error") :
         /\ logged[n].line.marker = BranchLast
         /\ logged[n].line.name = basename(d)
         /\ d # fsys.root => n - 1 \in LinesFor(d, "dir")
    /\ \A n \in LinesFor(d, "dir") : n + 1 \in LinesFor(d, "readdir error")
    /\ (d = fsys.root /\ pc \in {"scan", "report", "done"})
         => LinesFor(d, "readdir error") = {1}
    /\ (pc = "exit") => (fsys.root \in fsys.faults.stat \/ throwsSyntaxError(config.patterns))
    /\ (Walked /\ LinesFor(d, "dir") # {})
         => LET sv == Survivors(Parent(d))
                k == CHOOSE i \in 1..Len(sv) : join(Parent(d), sv[i]) = d
                at == CHOOSE n \in LinesFor(d, "readdir error") : TRUE
            IN \A j \in (k + 1)..Len(sv) :
                 \E n \in (at + 1)..Len(logged) : logged[n].path = join(Parent(d), sv[j])

\* the listing of src fails: its line, the placeholder, then b.js
C13_Witness ==
  /\ pc = "done"
  /\ fsys.list = NestedTree.list
  /\ fsys.faults.readdir = {join(Root, NameSrc)}
  /\ config.exclude = {}
  /\ config.patterns = <<>>
  /\ PathsOf(logged) = <<join(Root, NameSrc), join(Root, NameSrc), join(Root, NameBJs)>>
  /\ logged[2].line = Line(<<IndentMid>>, BranchLast, "readdir error", NameSrc)
  /\ PathsOf(calls) \in {<<join(Root, NameSrc), join(Root, NameBJs)>>,
                          <<Root, join(Root, NameSrc), join(Root, NameBJs)>>}

\* the innermost call of listDirRecursive and the entry it is about to
\* process
Top == stack[Len(stack)]
AtEntry == pc = "scan" /\ stack # <<>> /\ Top.index <= Len(Top.filteredItems)
CurrentItem == Top.filteredItems[Top.index]
CurrentPath == join(Top.dirPath, CurrentItem)
CurrentIsLast == Top.index = Len(Top.filteredItems)

\* C14: when stat fails for a surviving entry the walker emits one error
\* line for it, with the entry's prefix and branch glyph, makes no
\* addFile or addDirectory call, leaves the statistics and the progress as
\* they are and goes on with the next sibling; over the whole walk the
\* entry has that line only, nothing of it or below it reaches the
\* collector, and the progress counts the collector calls of the walk
C14_StatFailureSkipsEntry ==
  /\ [](\A p \in fsys.faults.stat :
          /\ LinesFor(p, "dir") = {} /\ LinesFor(p, "file") = {}
          /\ LinesFor(p, "readdir error") = {}
          /\ Cardinality(LinesFor(p, "stat error")) <= 1
          /\ \A n \in 1..Len(calls) :
               p # fsys.root => calls[n].path # p /\ ~IsAncestor(p, calls[n].path)
          /\ \A n \in 1..Len(logged) : ~IsAncestor(p, logged[n].path))
  /\ [](pc \in {"scan", "report", "done"} => progressTracker.current = Len(WalkCalls))
  /\ [][(AtEntry /\ CurrentPath \in fsys.faults.stat)
          => /\ logged' = Append(logged,
                            [line |-> Line(Top.prefix, entryPrefix(CurrentIsLast),
                                           "stat error", CurrentItem),
                             path |-> CurrentPath])
             /\ outputs' = IF config.outDir
                           THEN Append(outputs, logged'[Len(logged')].line)
                           ELSE outputs
             /\ UNCHANGED <<stats, calls, threw, lastOp, progressTracker, bar, pc>>
             /\ stack' = [stack EXCEPT ![Len(stack)].index = Top.index + 1]]_vars

\* stat fails for src: one error line for it, then b.js is processed
C14_Witness ==
  /\ pc = "done"
  /\ fsys.list = NestedTree.list
  /\ fsys.faults.stat = {join(Root, NameSrc)}
  /\ config.exclude = {}
  /\ config.patterns = <<>>
  /\ PathsOf(logged) = <<join(Root, NameSrc), join(Root, NameBJs)>>
  /\ logged[1].line = Line(<<>>, BranchMid, "stat error", NameSrc)
  /\ PathsOf(WalkCalls) = <<join(Root, NameBJs)>>
  /\ progressTracker.current = 1

\* the paths for which the walker emitted an error placeholder
Placeholders ==
  {logged[n].path : n \in {m \in 1..Len(logged) :
                              logged[m].line.kind \in {"readdir error", "stat error"}}}

\* the calls of one collector method for entries without a placeholder
CleanCalls(op) ==
  SelectSeq(calls, LAMBDA c : c.op = op /\ c.path \notin Placeholders)

\* C15: the totals reflect the successfully processed entries only: a
\* directory with a listing-error placeholder and an entry with a
\* stat-error placeholder add nothing to totalDirectories, totalFiles and
\* totalSize
C15_TotalsSkipFailedEntries ==
  Walked =>
    /\ \A n \in 1..Len(calls) : calls[n].path \notin Placeholders
    /\ stats.totalDirectories = Len(CleanCalls("addDirectory"))
    /\ stats.totalFiles = Len(CleanCalls("addFile"))
    /\ stats.totalSize = SumOfSizes(CleanCalls("addFile"))

----------------------------------------------------------------------------
(* Properties of the order and the layout of the tree *)

\* the surviving entries below a directory in pre-order: each entry in
\* listing order, a directory followed by what is below it when it can
\* be stat-ed and listed
RECURSIVE PreOrder(_)
PreOrder(dirPath) ==
  LET sv == Survivors(dirPath)
      under(item) ==
        LET p == join(dirPath, item)
        IN <<p>> \o (IF /\ p \in DOMAIN fsys.list
                        /\ p \notin fsys.faults.stat
                        /\ p \notin fsys.faults.readdir
                     THEN PreOrder(p) ELSE <<>>)
      upTo[i \in 0..Len(sv)] == IF i = 0 THEN <<>> ELSE upTo[i - 1] \o under(sv[i])
  IN upTo[Len(sv)]

Expected == IF fsys.root \in fsys.faults.readdir THEN <<>> ELSE PreOrder(fsys.root)

\* the lines emitted for entries, the listing-error placeholders left out
EntryLines == SelectSeq(logged, LAMBDA e : e.line.kind # "readdir error")

\* the entry lines whose entry could be stat-ed
StatedLines == SelectSeq(EntryLines, LAMBDA e : e.line.kind # "stat error")

\* C16: the walker emits the surviving entries in pre-order, each
\* directory in its listing order: the entry lines so far are the first
\* entries of the pre-order sequence and all of it when the walk is over;
\* the collector calls of the walk are those of the stat-ed entries in the
\* same order, a directory line and addDirectory call coming before
\* anything below the directory; the report receives the lines in that
\* order
C16_PreOrderInListingOrder ==
  /\ Len(EntryLines) <= Len(Expected)
  /\ \A n \in 1..Len(EntryLines) : EntryLines[n].path = Expected[n]
  /\ Walked => Len(EntryLines) = Len(Expected)
  /\ Len(WalkCalls) = Len(StatedLines)
  /\ \A n \in 1..Len(WalkCalls) :
       /\ WalkCalls[n].path = StatedLines[n].path
       /\ WalkCalls[n].op = IF StatedLines[n].path \in DOMAIN fsys.list
                            THEN "addDirectory" ELSE "addFile"
       /\ StatedLines[n].line.kind = IF StatedLines[n].path \in DOMAIN fsys.list
                                     THEN "dir" ELSE "file"
  /\ (config.outDir /\ pc \in {"scan", "report"})
       => /\ Len(outputs) = Len(logged) + 1
          /\ \A n \in 1..Len(logged) : outputs[n + 1] = logged[n].line

\* src/{b.js, sub/{y.js}, a.txt}, b.js is walked as src, src/b.js,
\* src/sub, src/sub/y.js, src/a.txt, b.js
C16_Witness ==
  /\ pc = "done"
  /\ fsys.list = NestedTree.list
  /\ fsys.faults = NoFaults
  /\ config.exclude = {}
  /\ config.patterns = <<>>
  /\ config.outDir
  /\ PathsOf(logged) = <<join(Root, NameSrc),
                         join(join(Root, NameSrc), NameBJs),
                         join(join(Root, NameSrc), NameSub),
                         join(join(join(Root, NameSrc), NameSub), NameYJs),
                         join(join(Root, NameSrc), NameATxt),
                         join(Root, NameBJs)>>
  /\ PathsOf(calls) = PathsOf(logged)

\* the entry at p is the last of the surviving entries of its directory
IsLastSurvivor(p) ==
  LET sv == Survivors(Parent(p))
  IN sv # <<>> /\ join(Parent(p), sv[Len(sv)]) = p

\* the continuation prefix of the entries of a directory: one piece for
\* each directory from below the scan root down to it, the four spaces
\* where that directory is the last surviving entry of its parent and the
\* bar otherwise
RECURSIVE ContinuationPrefix(_)
ContinuationPrefix(dirPath) ==
  IF dirPath = fsys.root THEN <<>>
  ELSE Append(ContinuationPrefix(Parent(dirPath)),
              IF IsLastSurvivor(dirPath) THEN IndentLast ELSE IndentMid)

\* the number of characters of a prefix
RECURSIVE Chars(_)
Chars(prefix) == IF prefix = <<>> THEN 0 ELSE Len(Head(prefix)) + Chars(Tail(prefix))

\* C17: an entry line is the continuation prefix of its directory and then
\* the branch glyph, the closing one for the last of the surviving entries
\* of the directory and the open one otherwise; the prefix handed to the
\* entries of a directory is the directory's own plus four spaces when
\* the directory is the last surviving entry of its parent, plus the bar
\* and three spaces otherwise; the prefix of an entry at depth d has
\* 4 * (d - 1) characters
C17_LinePrefixAndBranch ==
  /\ \A n \in 1..Len(EntryLines) :
       LET e == EntryLines[n]
       IN /\ e.line.prefix = ContinuationPrefix(Parent(e.path))
          /\ e.line.marker = IF IsLastSurvivor(e.path) THEN BranchLast ELSE BranchMid
          /\ e.line.name = basename(e.path)
          /\ Chars(e.line.prefix) = 4 * (Level(fsys, e.path) - 1)
          /\ Len(e.line.marker) = 4
  /\ \A n \in 1..Len(stack) : stack[n].prefix = ContinuationPrefix(stack[n].dirPath)

\* src is followed by b.js and sub by a.txt, y.js is the only entry of
\* sub: the line of y.js is two bars and the closing glyph
C17_Witness ==
  /\ pc = "done"
  /\ fsys.list = NestedTree.list
  /\ fsys.faults = NoFaults
  /\ config.exclude = {}
  /\ config.patterns = <<>>
  /\ Len(logged) = 6
  /\ logged[1].line = Line(<<>>, BranchMid, "dir", NameSrc)
  /\ logged[3].line = Line(<<IndentMid>>, BranchMid, "dir", NameSub)
  /\ logged[4].line = Line(<<IndentMid, IndentMid>>, BranchLast, "file", NameYJs)
  /\ logged[5].line = Line(<<IndentMid>>, BranchLast, "file", NameATxt)
  /\ logged[6].line = Line(<<>>, BranchLast, "file", NameBJs)

----------------------------------------------------------------------------
(* Properties of a run of executeListDir *)

\* C18: in a run of executeListDir the statistics are empty when the scan
\* starts, are not finalized before the traversal is over, and when the
\* run is over finalize has run exactly once with no collector call after
\* it, with and without outDir
C18_FinalizedExactlyOnce ==
  /\ pc = "swap log" => stats = InitialStats /\ lastOp = "new"
  /\ pc \in {"scan", "report"} => lastOp \in {"new", "addFile", "addDirectory"}
  /\ pc = "done" => lastOp = "finalize"

\* C19: a pattern that is not a regular expression is rejected when the
\* configuration is loaded: with such a pattern neither the estimator nor
\* the walker runs, and a run that has made its estimate is never aborted
C19_InvalidPatternRejectedAtLoad ==
  /\ throwsSyntaxError(config.patterns)
       => /\ pc \in {"start", "exit"}
          /\ progressTracker.total = 0
          /\ calls = <<>>
  /\ pc = "exit" => progressTracker.total = 0

\* C20: without outDir the tree is displayed: when the run is over every
\* line the walker emitted for a surviving entry has been written to the
\* console, as with outDir every such line is in the report, after the
\* statistics, the three header lines and the line of the root
C20_TreeShownOnConsole ==
  pc = "done" =>
    \A n \in 1..Len(logged) :
      logged[n].line.kind \in {"dir", "file", "stat error"} =>
        IF config.outDir
        THEN Len(outputs) = Len(logged) + 5 /\ outputs[n + 5] = logged[n].line
        ELSE \E k \in 1..Len(console) : console[k] = logged[n].line

----------------------------------------------------------------------------
(* Properties of the line classifier *)

\* the value of inMultiLineComment when line i of the file is read
FlagBefore(i) == IF i = 1 THEN FALSE ELSE lc.flags[i - 1]

\* the lines of the code file read so far that hold the given text and
\* were read outside a block comment
ReadOutside(text) ==
  {i \in 1..Len(lc.kinds) : lc.lines[i] = text /\ ~FlagBefore(i)}

\* C21, as claimed: in a code file the line "code(); // trailing comment"
\* read outside a block comment is counted as a comment, not as code
C21_TrailingCommentIsComment ==
  \A i \in ReadOutside(LineTrailing) : lc.kinds[i] = "comments"

\* C21, amended: in a code file the line "code(); // trailing comment"
\* read outside a block comment is counted as code, not as a comment
C21_TrailingCommentIsCode ==
  \A i \in ReadOutside(LineTrailing) : lc.kinds[i] = "code"

\* a .js file whose second line is the trailing-comment line, read after
\* a code line
C21_Witness ==
  /\ lc.pc = "done"
  /\ lc.filePath = PathJs
  /\ lc.rd = ReadOk(joinLines(<<LineCode, LineTrailing>>))
  /\ lc.kinds = <<"code", "code">>
  /\ lc.result.lineCount = [total |-> 2, code |-> 2, comments |-> 0, blank |-> 0]

----------------------------------------------------------------------------
(* Properties of the collector: the line counters and the extension maps *)

\* the addFile calls for which countLinesInFile returned a FileLineInfo
InfoCalls == SelectSeq(FileCalls, LAMBDA c : c.lineInfo.tag = "info")

\* C22: with line counting disabled codeFileCount, nonCodeFileCount,
\* totalLines and linesByExtension keep their initial values whatever
\* files are added; with it enabled codeFileCount + nonCodeFileCount is
\* the number of files the classifier returned a result for, at most
\* totalFiles, and equal to it exactly when it returned one for every
\* added file
C22_CodeFileCountsNeedLineCounting ==
  /\ ~countLines
       => /\ stats.codeFileCount = 0
          /\ stats.nonCodeFileCount = 0
          /\ stats.totalLines = ZeroLineCount
          /\ stats.linesByExtension = <<>>
  /\ countLines
       => /\ stats.codeFileCount + stats.nonCodeFileCount <= stats.totalFiles
          /\ stats.codeFileCount + stats.nonCodeFileCount = Len(InfoCalls)
          /\ stats.codeFileCount
               = Len(SelectSeq(InfoCalls, LAMBDA c : IsCodePath(c.path)))
          /\ (stats.codeFileCount + stats.nonCodeFileCount = stats.totalFiles)
               <=> (Len(InfoCalls) = Len(FileCalls))

\* three files added with line counting, the read of one of them failing
C22_Witness ==
  /\ countLines
  /\ Len(FileCalls) = 3
  /\ Len(InfoCalls) = 2
  /\ stats.totalFiles = 3
  /\ stats.codeFileCount = 1
  /\ stats.nonCodeFileCount = 1

\* line i of the file is not empty and not white space only
NonBlank(i) == \E j \in 1..Len(lc.lines[i]) : lc.lines[i][j] \notin WhiteSpace

\* the text ends, before any trailing white space, with the marker
EndsWith(text, marker) ==
  LET t == trim(text)
  IN Len(t) >= Len(marker) /\ SubSeq(t, Len(t) - Len(marker) + 1, Len(t)) = marker

\* the line matches a block-comment END pattern
ClosesBlock(text) ==
  \/ EndsWith(text, <<"*", "/">>)
  \/ EndsWith(text, <<"-", "-", ">">>)
  \/ EndsWith(text, <<"\"", "\"", "\"">>)
  \/ EndsWith(text, <<"'", "'", "'">>)

\* C23: in a code file, from a line read inside a block comment on, every
\* non-blank line is counted as a comment up to and including the first
\* one that matches an END pattern of any marker kind, the flag staying
\* set before that line and being cleared by it; without such a line the
\* non-blank lines are comments and the flag stays set to the end
C23_BlockCommentRunsToFirstEnd ==
  \A i \in 1..Len(lc.kinds) :
    FlagBefore(i) =>
      LET closers == {j \in i..Len(lc.kinds) : NonBlank(j) /\ ClosesBlock(lc.lines[j])}
          last == IF closers = {} THEN Len(lc.kinds)
                  ELSE CHOOSE j \in closers : \A k \in closers : j <= k
      IN \A k \in i..last :
           /\ NonBlank(k) => lc.kinds[k] = "comments"
           /\ lc.flags[k] = (k < last \/ closers = {})

\* a block opened by the C marker and closed by a triple quote: the code
\* line inside it is a comment, and the line of the quotes clears the flag
C23_Witness ==
  /\ lc.pc = "done"
  /\ lc.filePath = PathJs
  /\ lc.lines = <<LineStart, LineCode, LineQuotes>>
  /\ lc.kinds = <<"comments", "comments", "comments">>
  /\ lc.flags = <<TRUE, TRUE, FALSE>>

\* the number of lines read so far that were counted as the given kind
KindCount(kind) == Cardinality({i \in 1..Len(lc.kinds) : lc.kinds[i] = kind})

\* C24: in a code file an empty or white-space-only line is counted as
\* blank inside and outside a block comment and leaves inMultiLineComment
\* as it is, no other line is counted as blank, each line read increments
\* exactly one of the three counters, and the result has
\* blank + comments + code = total = the number of pieces of the content
\* split on the newline
C24_BlankLinesAndTotal ==
  /\ \A i \in 1..Len(lc.kinds) :
       IF NonBlank(i) THEN lc.kinds[i] \in {"comments", "code"}
       ELSE lc.kinds[i] = "blank" /\ lc.flags[i] = FlagBefore(i)
  /\ lc.blankLines = KindCount("blank")
  /\ lc.commentLines = KindCount("comments")
  /\ lc.codeLines = KindCount("code")
  /\ lc.pc = "loop" => lc.blankLines + lc.commentLines + lc.codeLines = lc.idx - 1
  /\ (lc.pc = "done" /\ lc.rd.ok /\ IsCodePath(lc.filePath))
       => /\ lc.result.lineCount.total = Newlines(lc.rd.content) + 1
          /\ lc.result.lineCount.total
               = lc.result.lineCount.blank + lc.result.lineCount.comments
                   + lc.result.lineCount.code
          /\ lc.result.lineCount.blank = KindCount("blank")

\* an empty line and a line of one space inside a block comment that is
\* never closed
C24_Witness ==
  /\ lc.pc = "done"
  /\ lc.filePath = PathJs
  /\ lc.lines = <<LineStart, LineEmpty, LineSpace>>
  /\ lc.kinds = <<"comments", "blank", "blank">>
  /\ lc.flags = <<TRUE, TRUE, TRUE>>
  /\ lc.result.lineCount = [total |-> 3, code |-> 0, comments |-> 1, blank |-> 2]

\* the text begins, after any leading white space, with the marker, and
\* what follows the marker does not end with an END marker: the line
\* opens a block comment and does not close it
OpensWith(text, marker) ==
  LET t == trim(text)
  IN /\ Len(t) >= Len(marker)
     /\ SubSeq(t, 1, Len(marker)) = marker
     /\ ~ClosesBlock(SubSeq(t, Len(marker) + 1, Len(t)))

OpensBlock(text) ==
  \/ OpensWith(text, <<"/", "*">>)
  \/ OpensWith(text, <<"<", "!", "-", "-">>)
  \/ OpensWith(text, <<"\"", "\"", "\"">>)
  \/ OpensWith(text, <<"'", "'", "'">>)

\* C26: in a code file a line that opens a block comment outside a block,
\* with any of the start markers and also a triple quote alone on its
\* line, is a comment, and so is every non-blank line after it up to and
\* including the next line that matches an END pattern
C26_BlockSpansLinesForEveryMarker ==
  \A i \in 1..Len(lc.kinds) :
    (~FlagBefore(i) /\ NonBlank(i) /\ OpensBlock(lc.lines[i])) =>
      LET closers == {j \in (i + 1)..Len(lc.kinds) :
                        NonBlank(j) /\ ClosesBlock(lc.lines[j])}
          last == IF closers = {} THEN Len(lc.kinds)
                  ELSE CHOOSE j \in closers : \A k \in closers : j <= k
      IN \A k \in i..last : NonBlank(k) => lc.kinds[k] = "comments"

----------------------------------------------------------------------------
(* Properties of the progress display *)

\* C25: during the scan a progress bar is shown on the console, with and
\* without outDir: startScanProgress has started a bar, and the bar shows
\* the percentage of the last updateProgress call of the walker
C25_ProgressBarInBothModes ==
  pc = "scan"
    => /\ bar.active
       /\ bar.value = percentage(progressTracker.current, progressTracker.total)

----------------------------------------------------------------------------
(* Properties of the extension maps *)

\* a lower-cased extension with its leading dot
IsLowerExtension(key) ==
  /\ Len(key) >= 1
  /\ key[1] = "."
  /\ \A i \in 1..Len(key) : \A k \in 1..26 : key[i] # UpperCase[k]

\* C27: after any addFile calls the values of filesByExtension sum to
\* totalFiles, those of sizeByExtension to totalSize, the two maps have the
\* same keys, each key is a lower-cased extension with its dot or
\* '(no extension)', and every filesByExtension value is at least 1
C27_ExtensionMapsPartitionTotals ==
  /\ SumOver(stats.filesByExtension, DOMAIN stats.filesByExtension) = stats.totalFiles
  /\ SumOver(stats.sizeByExtension, DOMAIN stats.sizeByExtension) = stats.totalSize
  /\ DOMAIN stats.filesByExtension = DOMAIN stats.sizeByExtension
  /\ \A key \in DOMAIN stats.filesByExtension :
       /\ key = NoExtension \/ IsLowerExtension(key)
       /\ stats.filesByExtension[key] >= 1

\* N.TXT added twice and Makefile once
C27_Witness ==
  /\ stats.totalFiles = 3
  /\ DOMAIN stats.filesByExtension = {NoExtension, <<".", "t", "x", "t">>}
  /\ stats.filesByExtension[<<".", "t", "x", "t">>] = 2
  /\ stats.filesByExtension[NoExtension] = 1
  /\ stats.sizeByExtension[<<".", "t", "x", "t">>] = 35

----------------------------------------------------------------------------
(* Properties of the scan as a whole *)

\* the entries the walker reaches and can stat: those of the pre-order
\* sequence whose stat succeeds
Reached == {p \in Range(Expected) : p \notin fsys.faults.stat}
ReachedFiles == {p \in Reached : p \notin DOMAIN fsys.list}
ReachedDirectories == {p \in Reached : p \in DOMAIN fsys.list}

\* C28: the final totals do not depend on the output mode: with and
\* without outDir a run over the same tree with the same exclusions ends
\* with the same totalFiles, totalDirectories and totalSize, those of the
\* entries the walker reached
C28_TotalsIndependentOfOutputMode ==
  pc = "done"
    => /\ stats.totalFiles = Cardinality(ReachedFiles)
       /\ stats.totalDirectories = Cardinality(ReachedDirectories)
       /\ stats.totalSize = SumOver(fsys.size, ReachedFiles)

\* the first listDirRecursive call has been made and is over, by a return
\* or by an exception
WalkOver == Walked \/ (pc = "exit" /\ progressTracker.total > 0)

\* stat of the entry at p succeeds: neither p nor a directory on the way
\* to it from the scan root is one that cannot be stat-ed
StatSucceeds(p) ==
  \A q \in EntryPaths(fsys) : (q = p \/ IsAncestor(q, p)) => q \notin fsys.faults.stat

\* no directory above p, the scan root included, has a failing listing
ListedAbove(p) ==
  \A d \in DOMAIN fsys.list : IsAncestor(d, p) => d \notin fsys.faults.readdir

\* the number of collector calls of the walk for the entry at p
TimesPassed(p) == Cardinality({n \in 1..Len(WalkCalls) : WalkCalls[n].path = p})

\* what is left of the run: two for every entry without a line yet, one
\* for every call of listDirRecursive that has to return, and the steps
\* of executeListDir around the walk
Remaining ==
  LET walk == 2 * (Cardinality(EntryPaths(fsys)) - Len(EntryLines)) + Len(stack)
  IN CASE pc = "start" -> 2 * Cardinality(EntryPaths(fsys)) + 5
       [] pc = "swap log" -> 2 * Cardinality(EntryPaths(fsys)) + 4
       [] pc = "scan" -> walk + 2
       [] pc = "report" -> 1
       [] OTHER -> 0

\* C29: on a finite tree the walk terminates: every step of the run
\* lowers a natural number; no entry is passed to the collector twice,
\* nothing excluded or beneath an excluded directory is emitted or passed,
\* and when the walk is over every entry that is not excluded, has no
\* excluded ancestor and no ancestor whose listing failed, and whose stat
\* succeeds has been passed to the collector exactly once
C29_WalkTerminatesAndVisitsOnce ==
  /\ [](/\ Remaining >= 0
        /\ \A p \in EntryPaths(fsys) : TimesPassed(p) <= 1
        /\ \A n \in 1..Len(WalkCalls) : Visible(WalkCalls[n].path)
        /\ \A n \in 1..Len(logged) :
             logged[n].path # fsys.root => Visible(logged[n].path)
        /\ WalkOver =>
             \A p \in EntryPaths(fsys) :
               (Visible(p) /\ ListedAbove(p) /\ StatSucceeds(p)) => TimesPassed(p) = 1)
  /\ [][Remaining' < Remaining]_vars

\* the percentage OutputManager.updateProgress computes from the tracker
Passed == percentage(progressTracker.current, progressTracker.total)

\* C30: each step of the walk raises progressTracker.current by the
\* number of collector calls the walker makes in it, 0 or 1, so that after
\* the walk it equals the number of entries the walker passed to the
\* collector; the percentage computed from it is an integer in 0..100
\* that no step lowers, the bar shows it while it is active, and this is
\* so also once current has passed the estimated total
C30_ProgressCountsWalkerCalls ==
  /\ [](/\ progressTracker.total > 0 =>
             /\ Passed \in 0..100
             /\ bar.active => bar.value = Passed
             /\ progressTracker.current >= progressTracker.total => Passed = 100
        /\ Walked => progressTracker.current = Len(WalkCalls))
  /\ [][pc = "scan" =>
          /\ progressTracker.current' - progressTracker.current
               = Len(WalkCalls') - Len(WalkCalls)
          /\ progressTracker.current' - progressTracker.current \in {0, 1}
          /\ progressTracker.total' = progressTracker.total
          /\ Passed' >= Passed]_vars

\* the 21 entries of the deep tree walked on the console with an estimate
\* of 20: the last file brings current to 21 and the bar stays at 100
C30_Witness ==
  /\ pc = "done"
  /\ fsys.list = DeepTree.list
  /\ ~config.outDir
  /\ progressTracker = [current |-> 21, total |-> 20]
  /\ Len(WalkCalls) = 21
  /\ bar.value = 100

====
